---- MODULE Spec2Model ----
(***************************************************************************)
(* Model of src/src/coroutine/clonable.rs (cheme/coroutine-rs).            *)
(*                                                                         *)
(* The file declares the coroutine API (Handle, Coroutine, State, spawn,   *)
(* resume, join, state, yield_now, sched, block, current, ...) and gives   *)
(* every function a body that returns a field-less value: State and Handle *)
(* are unit structs, resume and join return Ok(State), state returns       *)
(* State, the yield functions have empty bodies, spawn returns Handle      *)
(* without keeping its closure.  The model follows those bodies.           *)
(*                                                                         *)
(* The program is driven by two logical callers that call the operations   *)
(* of the API in any order; a call of resume is split into its entry and   *)
(* its return so that two attempts on one coroutine can overlap.           *)
(***************************************************************************)
EXTENDS Naturals, FiniteSets, Sequences

\* ------------------------------------------------------------- bounds
MaxCoroutines == 2   \* coroutines spawned in one run
MaxHandles == 2      \* live Handle values of one coroutine
MaxCalls == 2        \* resume calls on one coroutine
MaxSched == 1        \* yields a body performs before it exits

Cor == 1..MaxCoroutines
\* the two logical callers that drive the API
Callers == {1, 2}

\* ------------------------------------------------------------- values
\* pub struct State;  -- one value, no variants
State == "State"

\* pub static HANDLE : Handle = Handle;  -- the handle current() returns
HANDLE == 0

Targets == Cor \cup {HANDLE}

\* Options: spawn_opts takes them and reads none of them
Opts == {"default", "named"}

\* the closure handed to spawn: the yields it would perform, then how it
\* would exit ("none": it returns; otherwise the payload of its fault)
NoFault == "none"
Payloads == {"boom"}
YieldKinds == {"sched", "block"}
YieldSeqs == UNION {[1..n -> YieldKinds] : n \in 0..MaxSched}
Closures == [yields : YieldSeqs, fault : Payloads \cup {NoFault}]
NoBody == [yields |-> <<>>, fault |-> "unspawned"]
\* a coroutine made by Coroutine::new: it is given a Stack and a Context, no closure
CtxBody == [yields |-> <<>>, fault |-> "context"]

\* no parent recorded: Coroutine has no field for one
NoParent == MaxCoroutines + 1

\* what a call returned: its operation and target, Ok(val) or Err(val), the
\* resume calls on the target that had returned before it, and the context
\* that was executing just before the return
Returned(op, c, ok, val, prior, from) ==
    [op |-> op, c |-> c, ok |-> ok, val |-> val, prior |-> prior, from |-> from]
\* two attempts of resume that overlap on target c: how many of them have
\* returned Ok, how many Err(InvalidState)
Race(c, oks, errs) == [some |-> TRUE, c |-> c, oks |-> oks, errs |-> errs]
NoRace == [some |-> FALSE, c |-> HANDLE, oks |-> 0, errs |-> 0]

NoRet == Returned("none", HANDLE, TRUE, State, 0, HANDLE)

VARIABLES
    body,                   \* the closure each spawn call was given
    handles,                \* live Handle values per coroutine
    current_stack_segment,  \* Coroutine::current_stack_segment
    steps,                  \* steps of each body executed so far
    running,                \* the context whose code is executing, by its handle (HANDLE: the thread's own)
    nresume,                \* resume calls returned, per coroutine
    pc,                     \* per caller: "idle" or "resume" (inside resume)
    tgt,                    \* per caller: the target of the resume it is inside
    race,                   \* the latest two attempts that overlapped on one target, and their outcomes
    ret,                    \* the latest call that returned
    parent,                 \* per coroutine: the context recorded as its parent
    links,                  \* per coroutine: how often a parent has been recorded for it
    dealloc                 \* per coroutine: how often the Stack given for it has been deallocated

vars == <<body, handles, current_stack_segment, steps, running, nresume,
          pc, tgt, race, ret, parent, links, dealloc>>

Init ==
    /\ body = [c \in Cor |-> NoBody]
    /\ handles = [c \in Cor |-> 0]
    /\ current_stack_segment = [c \in Cor |-> "None"]
    /\ steps = [c \in Cor |-> 0]
    /\ running = HANDLE
    /\ nresume = [c \in Cor |-> 0]
    /\ pc = [a \in Callers |-> "idle"]
    /\ tgt = [a \in Callers |-> HANDLE]
    /\ race = NoRace
    /\ ret = NoRet
    /\ parent = [c \in Cor |-> NoParent]
    /\ links = [c \in Cor |-> 0]
    /\ dealloc = [c \in Cor |-> 0]

Spawned(c) == body[c] # NoBody
\* made by spawn or spawn_opts, from a closure
BySpawn(c) == body[c] \in Closures

Idle(a) == pc[a] = "idle"
InResume(a, c) == pc[a] = "resume" /\ tgt[a] = c
Live(c) == IF c = HANDLE THEN TRUE ELSE Spawned(c) /\ handles[c] > 0

\* ------------------------------------------------------------- Coroutine::spawn_opts, Coroutine::spawn
\* Both return the unit Handle: the closure and the options are dropped, no
\* Coroutine is built, no Stack is allocated, no code of the closure runs.
\* a spawn that calls its closure before it returns
NewCoroutineRunsBody(a, c, f, op) ==
    /\ Idle(a)
    /\ ~Spawned(c)
    /\ \A d \in Cor : d < c => Spawned(d)
    /\ body' = [body EXCEPT ![c] = f]
    /\ handles' = [handles EXCEPT ![c] = 1]
    /\ steps' = [steps EXCEPT ![c] = 1]
    /\ ret' = Returned(op, c, TRUE, "Handle", 0, running)
    /\ UNCHANGED <<current_stack_segment, running, nresume, pc, tgt, race, parent, links, dealloc>>

NewCoroutine(a, c, f, op) ==
    /\ Idle(a)
    /\ ~Spawned(c)
    /\ \A d \in Cor : d < c => Spawned(d)
    /\ body' = [body EXCEPT ![c] = f]
    /\ handles' = [handles EXCEPT ![c] = 1]
    /\ ret' = Returned(op, c, TRUE, "Handle", 0, running)
    /\ UNCHANGED <<current_stack_segment, steps, running, nresume, pc, tgt, race, parent, links, dealloc>>

spawn_opts(a, c, f, opts) == NewCoroutine(a, c, f, "spawn_opts")

spawn(a, c, f) == NewCoroutine(a, c, f, "spawn")

\* ------------------------------------------------------------- Coroutine::new
\* pub fn new(name, stack: Stack, ctx: Context, state: State) -> Handle { Handle }
\* The arguments are moved in and none is kept: the Stack is dropped when
\* the function returns, while the Handle it returns is live.
new(a, c) ==
    /\ Idle(a)
    /\ ~Spawned(c)
    /\ \A d \in Cor : d < c => Spawned(d)
    /\ body' = [body EXCEPT ![c] = CtxBody]
    /\ handles' = [handles EXCEPT ![c] = 1]
    /\ dealloc' = [dealloc EXCEPT ![c] = @ + 1]
    /\ ret' = Returned("new", c, TRUE, "Handle", 0, running)
    /\ UNCHANGED <<current_stack_segment, steps, running, nresume, pc, tgt, race, parent, links>>

\* ------------------------------------------------------------- Handle: Clone, drop
\* #[derive(Clone)] on the unit struct: one more Handle value, nothing else
HandleClone(a, c) ==
    /\ Idle(a)
    /\ Spawned(c)
    /\ handles[c] > 0
    /\ handles[c] < MaxHandles
    /\ handles' = [handles EXCEPT ![c] = @ + 1]
    /\ ret' = Returned("clone", c, TRUE, "Handle", 0, running)
    /\ UNCHANGED <<body, current_stack_segment, steps, running, nresume, pc, tgt, race, parent, links, dealloc>>

\* a drop that first runs the abandoned body one more step
HandleDropUnwinding(a, c) ==
    /\ Idle(a)
    /\ Spawned(c)
    /\ handles[c] > 0
    /\ handles[c] > 1 \/ \A b \in Callers : ~InResume(b, c)
    /\ handles' = [handles EXCEPT ![c] = @ - 1]
    /\ steps' = [steps EXCEPT ![c] = IF handles[c] = 1 THEN @ + 1 ELSE @]
    /\ ret' = Returned("drop", c, TRUE, "()", 0, running)
    /\ UNCHANGED <<body, current_stack_segment, running, nresume, pc, tgt, race, parent, links, dealloc>>

\* Handle has no Drop impl and no field: dropping one runs no code.  A
\* handle borrowed by a resume in progress cannot be dropped.
HandleDrop(a, c) ==
    /\ Idle(a)
    /\ Spawned(c)
    /\ handles[c] > 0
    /\ handles[c] > 1 \/ \A b \in Callers : ~InResume(b, c)
    /\ handles' = [handles EXCEPT ![c] = @ - 1]
    /\ ret' = Returned("drop", c, TRUE, "()", 0, running)
    /\ UNCHANGED <<body, current_stack_segment, steps, running, nresume, pc, tgt, race, parent, links, dealloc>>

\* ------------------------------------------------------------- Handle::state
\* a state() that reports a coroutine Finished after its first resume and
\* Suspended again after its second
stateLeavesFinished(c) ==
    IF c = HANDLE THEN "Running"
    ELSE IF nresume[c] = 0 THEN "Suspended"
    ELSE IF nresume[c] = 1 THEN "Finished"
    ELSE "Suspended"

\* pub fn state(&self) -> State { State }
state(c) == State

StateRead(a, c) ==
    /\ Idle(a)
    /\ Live(c)
    /\ ret' = Returned("state", c, TRUE, state(c), 0, running)
    /\ UNCHANGED <<body, handles, current_stack_segment, steps, running, nresume, pc, tgt, race, parent, links, dealloc>>

\* ------------------------------------------------------------- Coroutine::current
\* pub fn current() -> &'static Handle { &HANDLE }
\* a current() that returns the handle of the coroutine spawned first
currentFirstSpawned == IF Spawned(1) THEN 1 ELSE HANDLE

current == HANDLE

CurrentRead(a) ==
    /\ Idle(a)
    /\ ret' = Returned("current", current, TRUE, "Handle", 0, running)
    /\ UNCHANGED <<body, handles, current_stack_segment, steps, running, nresume, pc, tgt, race, parent, links, dealloc>>

\* ------------------------------------------------------------- Handle::resume
\* pub fn resume(&self) -> Result<State> { Ok(State) }
\* an entry into resume that hands control to the target and records
\* neither its parent nor its state
ResumeCallSwitching(a, c) ==
    /\ Idle(a)
    /\ Live(c)
    /\ c # HANDLE => nresume[c] + Cardinality({b \in Callers : InResume(b, c)}) < MaxCalls
    /\ pc' = [pc EXCEPT ![a] = "resume"]
    /\ tgt' = [tgt EXCEPT ![a] = c]
    /\ race' = IF \E b \in Callers : InResume(b, c) THEN Race(c, 0, 0) ELSE NoRace
    /\ running' = c
    /\ UNCHANGED <<body, handles, current_stack_segment, steps, nresume, ret, parent, links, dealloc>>

\* entry of the call by caller a on target c
ResumeCall(a, c) ==
    /\ Idle(a)
    /\ Live(c)
    /\ c # HANDLE => nresume[c] + Cardinality({b \in Callers : InResume(b, c)}) < MaxCalls
    /\ pc' = [pc EXCEPT ![a] = "resume"]
    /\ tgt' = [tgt EXCEPT ![a] = c]
    /\ race' = IF \E b \in Callers : InResume(b, c) THEN Race(c, 0, 0) ELSE NoRace
    /\ UNCHANGED <<body, handles, current_stack_segment, steps, running, nresume, ret, parent, links, dealloc>>

\* the body of resume: it reads nothing, writes nothing, switches nowhere,
\* and returns Ok(State)
ResumeReturn(a) ==
    /\ pc[a] = "resume"
    /\ pc' = [pc EXCEPT ![a] = "idle"]
    /\ tgt' = [tgt EXCEPT ![a] = HANDLE]
    /\ race' = IF race.some THEN [race EXCEPT !.oks = @ + 1] ELSE race
    /\ nresume' = IF tgt[a] = HANDLE THEN nresume ELSE [nresume EXCEPT ![tgt[a]] = @ + 1]
    /\ ret' = Returned("resume", tgt[a], TRUE, State,
                       IF tgt[a] = HANDLE THEN 0 ELSE nresume[tgt[a]], running)
    /\ UNCHANGED <<body, handles, current_stack_segment, steps, running, parent, links, dealloc>>

\* ------------------------------------------------------------- Handle::join
\* pub fn join(&self) -> Result<State> { Ok(State) }
join(a, c) ==
    /\ Idle(a)
    /\ c # HANDLE
    /\ Live(c)
    /\ ret' = Returned("join", c, TRUE, State, nresume[c], running)
    /\ UNCHANGED <<body, handles, current_stack_segment, steps, running, nresume, pc, tgt, race, parent, links, dealloc>>

\* ------------------------------------------------------------- Coroutine::yield_now, sched, block
\* pub fn yield_now(state: State) {}   pub fn sched() {}   pub fn block() {}
\* Empty bodies: the caller goes on.  No body of a spawned coroutine ever
\* runs, so the callers of these are the top-level callers.
YieldCall(a, op) ==
    /\ Idle(a)
    /\ ret' = Returned(op, current, TRUE, "()", 0, running)
    /\ UNCHANGED <<body, handles, current_stack_segment, steps, running, nresume, pc, tgt, race, parent, links, dealloc>>

yield_now(a) == YieldCall(a, "yield_now")

sched(a) == YieldCall(a, "sched")

block(a) == YieldCall(a, "block")

\* ------------------------------------------------------------- Coroutine::name
\* pub fn name(&self) -> Option<&str> { None }
name(c) == "None"

\* ------------------------------------------------------------- Coroutine::panicking, Coroutine::finished
\* pub fn panicking(&self) -> bool { false }
panicking(c) == FALSE

\* pub fn finished(&self) -> bool { true }
finished(c) == TRUE

\* ------------------------------------------------------------- the program
Next ==
    \/ \E a \in Callers, c \in Cor, f \in Closures, o \in Opts : spawn_opts(a, c, f, o)
    \/ \E a \in Callers, c \in Cor, f \in Closures : spawn(a, c, f)
    \/ \E a \in Callers, c \in Cor : new(a, c)
    \/ \E a \in Callers, c \in Cor : HandleClone(a, c)
    \/ \E a \in Callers, c \in Cor : HandleDrop(a, c)
    \/ \E a \in Callers, c \in Targets : StateRead(a, c)
    \/ \E a \in Callers, c \in Targets : ResumeCall(a, c)
    \/ \E a \in Callers : ResumeReturn(a)
    \/ \E a \in Callers, c \in Cor : join(a, c)
    \/ \E a \in Callers : CurrentRead(a)
    \/ \E a \in Callers : yield_now(a)
    \/ \E a \in Callers : sched(a)
    \/ \E a \in Callers : block(a)

Spec == Init /\ [][Next]_vars

\* ------------------------------------------------------------- vocabulary of the claims
\* the Error values of the crate root
InvalidState == "InvalidState"
\* Error::Panic(message), named by its message
Panic(p) == p

\* the state the documentation gives closure f after n of its resumes have
\* returned: each resume runs it to its next yield, the last one to its exit
Yielded(f, n) ==
    IF n < Len(f.yields)
    THEN IF f.yields[n + 1] = "sched" THEN "Suspended" ELSE "Blocked"
    ELSE IF f.fault = NoFault THEN "Finished" ELSE "Panicked"

\* n resumes of closure f have returned Ok: by then it has exited
Exited(f, n) == n > Len(f.yields)

NoResumeYet(c) == nresume[c] = 0 /\ \A a \in Callers : ~InResume(a, c)

OnlySched(f) == \A i \in 1..Len(f.yields) : f.yields[i] = "sched"

\* ------------------------------------------------------------- claims

\* C1: every spawned coroutine reads state() = Suspended in every state
\* before the first resume call on it, whatever was done to the others.
CE_C1 ==
    \A c \in Cor : (BySpawn(c) /\ NoResumeYet(c)) => state(c) = "Suspended"

\* C2: a resume of a coroutine that is Finished or Panicked (its body has
\* exited) returns Err(InvalidState), switches nowhere and runs no step of
\* the body.
CE_C2 ==
    (ret.op = "resume" /\ ret.c # HANDLE /\ BySpawn(ret.c) /\ Exited(body[ret.c], ret.prior))
        => /\ ~ret.ok
           /\ ret.val = InvalidState
           /\ ret.from = HANDLE
           /\ steps[ret.c] <= Len(body[ret.c].yields) + 1

\* C3: a resume of the context that is executing, through the handle that
\* current() returns, fails with InvalidState and the caller goes on.
CE_C3 ==
    (ret.op = "resume" /\ ret.c = current)
        => (~ret.ok /\ ret.val = InvalidState /\ running = HANDLE)

\* C4: a resume that returns Ok(s) returns the state of the body's latest
\* yield: Suspended after sched(), Blocked after block(), Finished after the
\* return, Panicked after a fault; s is not Running and state() reads s.
CE_C4 ==
    (ret.op = "resume" /\ ret.c # HANDLE /\ BySpawn(ret.c) /\ ret.ok)
        => /\ ret.val = Yielded(body[ret.c], ret.prior)
           /\ ret.val # "Running"
           /\ state(ret.c) = ret.val

\* C5: the resume during which the body faults with payload p returns
\* Ok(Panicked), and every join after it returns Err(Panic(p)).
CE_C5 ==
    /\ (ret.op = "resume" /\ ret.c # HANDLE /\ BySpawn(ret.c) /\ body[ret.c].fault # NoFault
            /\ ret.prior = Len(body[ret.c].yields))
        => (ret.ok /\ ret.val = "Panicked")
    /\ (ret.op = "join" /\ BySpawn(ret.c) /\ body[ret.c].fault # NoFault /\ Exited(body[ret.c], ret.prior))
        => (~ret.ok /\ ret.val = Panic(body[ret.c].fault))

\* C6: control arrives at the return of resume(c) from c, by c's yield, and
\* from no other context.
CE_C6 ==
    (ret.op = "resume" /\ ret.c # HANDLE /\ BySpawn(ret.c) /\ ret.ok) => ret.from = ret.c

\* C7: of two resume attempts that overlap on one coroutine, exactly one
\* returns Ok and the other returns InvalidState.
CE_C7 ==
    (race.some /\ race.c # HANDLE /\ race.oks + race.errs = 2)
        => (race.oks = 1 /\ race.errs = 1)

CE_C9 ==
    (ret.op = "join" /\ ret.from = HANDLE /\ BySpawn(ret.c) /\ OnlySched(body[ret.c]))
        => IF body[ret.c].fault = NoFault
           THEN ret.ok /\ ret.val = "Finished" /\ state(ret.c) = "Finished"
           ELSE ~ret.ok /\ ret.val = Panic(body[ret.c].fault)

\* C10: join on a coroutine that is already Finished or Panicked returns
\* its terminal outcome, Ok(Finished) or Err(Panic(p)), without a switch
\* and without a step of the body.
CE_C10 ==
    (ret.op = "join" /\ BySpawn(ret.c) /\ Exited(body[ret.c], ret.prior))
        => /\ ret.from = HANDLE
           /\ steps[ret.c] <= Len(body[ret.c].yields) + 1
           /\ IF body[ret.c].fault = NoFault
              THEN ret.ok /\ ret.val = "Finished"
              ELSE ~ret.ok /\ ret.val = Panic(body[ret.c].fault)

\* C11: spawn and spawn_opts run no step of the body: none has run while
\* no resume of the coroutine has been called, and the spawner gets the
\* Handle back with no switch away from it.
Thm_C11 ==
    /\ \A c \in Cor : (BySpawn(c) /\ NoResumeYet(c)) => steps[c] = 0
    /\ ret.op \in {"spawn", "spawn_opts"} => (ret.from = running /\ steps[ret.c] = 0)

\* a spawn has just returned its Handle
Witness_C11 ==
    ret.op \in {"spawn", "spawn_opts"} /\ BySpawn(ret.c) /\ NoResumeYet(ret.c)
        /\ handles[ret.c] = 1

CE_C13 ==
    \A c \in Cor :
        BySpawn(c) => /\ finished(c) <=> state(c) = "Finished"
                      /\ NoResumeYet(c) => ~finished(c)

\* the six transitions of the state table
StateTable ==
    { <<"Suspended", "Running">>, <<"Blocked", "Running">>,
      <<"Running", "Suspended">>, <<"Running", "Blocked">>,
      <<"Running", "Finished">>, <<"Running", "Panicked">> }

CE_C15 ==
    \A c \in Cor :
        BySpawn(c) => /\ parent[c] # NoParent <=> state(c) = "Running"
                      /\ links[c] >= nresume[c]

\* C16: the body is entered on the first successful resume and only then,
\* and no step of it executes twice.
CE_C16 ==
    \A c \in Cor :
        BySpawn(c) => /\ nresume[c] > 0 => steps[c] > 0
                      /\ steps[c] > 0 => ~NoResumeYet(c)
                      /\ steps[c] <= Len(body[c].yields) + 1

\* C17: one context executes at a time: the resumer goes on after a
\* successful resume(c) only when c has run up to its next yield.
CE_C17 ==
    (ret.op = "resume" /\ ret.c # HANDLE /\ BySpawn(ret.c) /\ ret.ok
            /\ ret.prior <= Len(body[ret.c].yields))
        => (running = HANDLE /\ steps[ret.c] >= ret.prior + 1)

\* C18: the resume during which the body of B faults leaves B Panicked and
\* no other coroutine, and its resumer goes on with an Ok result.
CE_C18 ==
    (ret.op = "resume" /\ ret.c # HANDLE /\ BySpawn(ret.c)
            /\ body[ret.c].fault # NoFault /\ ret.prior = Len(body[ret.c].yields))
        => /\ ret.ok
           /\ running = ret.from
           /\ state(ret.c) = "Panicked"
           /\ \A d \in Cor : (d # ret.c /\ Spawned(d) /\ nresume[d] = 0) => state(d) # "Panicked"

\* C19: the stack of a coroutine is deallocated at most once, and never
\* while the coroutine has a live Handle or is Running.
CE_C19 ==
    \A c \in Cor :
        Spawned(c) => /\ dealloc[c] <= 1
                      /\ handles[c] > 0 => dealloc[c] = 0
                      /\ state(c) = "Running" => dealloc[c] = 0

\* the coroutines on the chain of parent links that starts at context x
RECURSIVE ChainFrom(_, _)
ChainFrom(x, n) ==
    IF x = HANDLE \/ n = 0 THEN {}
    ELSE {x} \cup (IF parent[x] = NoParent THEN {} ELSE ChainFrom(parent[x], n - 1))

\* the chain that starts at x reaches the thread's own context
RECURSIVE ChainEnds(_, _)
ChainEnds(x, n) ==
    IF x = HANDLE THEN TRUE
    ELSE IF n = 0 \/ parent[x] = NoParent THEN FALSE
    ELSE ChainEnds(parent[x], n - 1)

RunningSet == {c \in Cor : Spawned(c) /\ state(c) = "Running"}

====
